---------------------------- MODULE Spec2Model ----------------------------
(***************************************************************************)
(* ClawHark transcription pipeline (scripts/transcribe.py).                *)
(*                                                                         *)
(* Four phases: speech detection, segmentation by time gap, concatenation  *)
(* of each conversation, diarized transcription and transcript assembly.   *)
(*                                                                         *)
(* Spec     : a whole run of main().                                       *)
(* FairSpec : Spec, the run taking every step it can.                      *)
(* SegSpec  : phase2_segment called on an arbitrary list of chunks.        *)
(* DiarizeSpec : phase4_diarize called on an arbitrary list of audio       *)
(*            files, with any provider name.                               *)
(***************************************************************************)
EXTENDS Integers, Sequences, FiniteSets, TLC

(***************************************************************************)
(* Bounds of the model.                                                    *)
(***************************************************************************)
\* longest chunk list handed to phase2_segment in SegSpec
MaxLen == 3
\* most chunk files found in the day's directory in Spec
MaxChunks == 3
\* longest list of audio files handed to phase4_diarize in DiarizeSpec
MaxAudio == 3

(***************************************************************************)
(* Chunks.  A chunk is a path: a stem and a container format.  The stem is *)
(* <<prefix, day, hour, minute, second>>; the fields after the prefix are  *)
(* the zero-padded fields of chunk_2026-03-DD_HH-MM-SS.                    *)
(***************************************************************************)
Stem(p, d, h, m, s) == <<p, d, h, m, s>>

Chunk(stem, ext) == [stem |-> stem, ext |-> ext]

\* 10:00:00, 10:04:00, 10:10:00, 10:20:00, 10:20:01, 10:40:00 of one day
WellFormedStems ==
    { Stem("chunk_", 1, 10, 0, 0), Stem("chunk_", 1, 10, 4, 0),
      Stem("chunk_", 1, 10, 10, 0), Stem("chunk_", 1, 10, 20, 0),
      Stem("chunk_", 1, 10, 20, 1), Stem("chunk_", 1, 10, 40, 0) }

\* hour 24 is no time of day; "note_..." holds no "chunk_" token
MalformedStems ==
    { Stem("chunk_", 1, 24, 0, 0), Stem("note_", 1, 10, 30, 0) }

Stems == WellFormedStems \cup MalformedStems

(***************************************************************************)
(* Timestamp parsing: name.split("chunk_")[1] and datetime.strptime.       *)
(***************************************************************************)
\* name.split("chunk_")[1]: IndexError when the stem holds no "chunk_"
SplitToken(stem) ==
    IF stem[1] = "chunk_"
    THEN [exc |-> "none", val |-> SubSeq(stem, 2, 5)]
    ELSE [exc |-> "IndexError", val |-> <<>>]

\* datetime.strptime(token, "%Y-%m-%d_%H-%M-%S"): seconds since the start
\* of the month, ValueError for a field out of range
Strptime(tok) ==
    IF /\ tok[1] \in 1..31
       /\ tok[2] \in 0..23
       /\ tok[3] \in 0..59
       /\ tok[4] \in 0..59
    THEN [exc |-> "none",
          val |-> (((tok[1] - 1) * 24 + tok[2]) * 60 + tok[3]) * 60 + tok[4]]
    ELSE [exc |-> "ValueError", val |-> 0]

ParseTime(stem) ==
    LET t == SplitToken(stem)
    IN  IF t.exc # "none" THEN [exc |-> t.exc, val |-> 0] ELSE Strptime(t.val)

GapThreshold == 600

\* a default above the threshold
DefaultGap_split == GapThreshold + 300
DefaultGap == 300

\* except (ValueError, IndexError)
Caught(exc) == exc \in {"ValueError", "IndexError"}

\* the try block of the loop body: the gap in seconds, or the exception
\* that leaves phase2_segment
Gap(prev, curr) ==
    LET p == ParseTime(prev.stem)
        c == ParseTime(curr.stem)
        e == IF p.exc # "none" THEN p.exc ELSE c.exc
    IN  IF e = "none" THEN [exc |-> "none", val |-> c.val - p.val]
        ELSE IF Caught(e) THEN [exc |-> "none", val |-> DefaultGap]
        ELSE [exc |-> e, val |-> 0]

NewConversation_hour(gap) == gap > 3600
NewConversation_inverted(gap) == gap < GapThreshold
\* if gap > 600
NewConversation(gap) == gap > GapThreshold

\* the chunk the gap of chunks[i] is measured against
Previous_group_first(chunks, i, current) == current[1]
Previous(chunks, i, current) == chunks[i - 1]

StartGroup_empty(c) == <<>>
\* current = [chunks[i]]
StartGroup(c) == <<c>>

RECURSIVE SegmentLoop(_, _, _, _)
\* the for loop from index i on, then the final append
SegmentLoop(chunks, i, conversations, current) ==
    IF i > Len(chunks)
    THEN [exc |-> "none", val |-> Append(conversations, current)]
    ELSE LET g == Gap(Previous(chunks, i, current), chunks[i])
         IN  IF g.exc # "none" THEN [exc |-> g.exc, val |-> <<>>]
             ELSE IF NewConversation(g.val)
             THEN SegmentLoop(chunks, i + 1, Append(conversations, current),
                              StartGroup(chunks[i]))
             ELSE SegmentLoop(chunks, i + 1, conversations,
                              Append(current, chunks[i]))

phase2_segment(chunks) ==
    IF chunks = <<>> THEN [exc |-> "none", val |-> <<>>]
    ELSE SegmentLoop(chunks, 2, <<>>, <<chunks[1]>>)

(***************************************************************************)
(* Chunk discovery: sorted(glob("chunk_*.wav")) + sorted(glob("chunk_*.m4a"))*)
(***************************************************************************)
RECURSIVE LexLess(_, _, _)
\* path order of two stems with the same prefix: the zero-padded fields
\* compare as the tuple of their numbers
LexLess(a, b, k) ==
    IF k > Len(a) THEN FALSE
    ELSE IF a[k] # b[k] THEN a[k] < b[k]
    ELSE LexLess(a, b, k + 1)

PathLess(a, b) == LexLess(a.stem, b.stem, 2)

RECURSIVE Sorted(_)
\* sorted(S) for a set of paths of one directory and one extension
Sorted(S) ==
    IF S = {} THEN <<>>
    ELSE LET least == CHOOSE x \in S : \A y \in S \ {x} : PathLess(x, y)
         IN  <<least>> \o Sorted(S \ {least})

Glob(files, ext) == {f \in files : f.stem[1] = "chunk_" /\ f.ext = ext}

\* line 242
Discover(files) == Sorted(Glob(files, "wav")) \o Sorted(Glob(files, "m4a"))

(***************************************************************************)
(* Python and JSON values.  A string is a sequence of pieces (substrings); *)
(* None and an absent key are values of their own.                         *)
(***************************************************************************)
Str(s) == [t |-> "str", s |-> s]
List(l) == [t |-> "list", s |-> l]
None == [t |-> "none", s |-> <<>>]
Missing == [t |-> "missing", s |-> <<>>]

\* dict.get(key, default)
Get(v, default) == IF v.t = "missing" THEN default ELSE v

\* the text an f-string gives for a value
Format(v) == IF v.t = "none" THEN <<"None">> ELSE v.s

Separator_rule == <<"\n", "---", "\n">>
\* "\n\n---\n\n": a blank line, a rule, a blank line
Separator == <<"\n\n", "---", "\n\n">>

RECURSIVE JoinPieces(_, _)
\* sep.join(texts) for a list of piece sequences and the pieces of sep
JoinPieces(texts, sep) ==
    IF texts = <<>> THEN <<>>
    ELSE IF Len(texts) = 1 THEN texts[1]
    ELSE texts[1] \o sep \o JoinPieces(Tail(texts), sep)

\* str.join raises TypeError on an item that is no string
Join(values, sep) ==
    IF \E k \in 1..Len(values) : values[k].t # "str"
    THEN [exc |-> "TypeError", val |-> <<>>]
    ELSE [exc |-> "none",
          val |-> JoinPieces([k \in 1..Len(values) |-> values[k].s], sep)]

(***************************************************************************)
(* The asynchronous provider (AssemblyAI).                                 *)
(***************************************************************************)
Utterance(speaker, start, text) ==
    [speaker |-> speaker, start |-> start, text |-> text]

\* f"{ms / 1000:.0f}": round to the nearest integer, ties to even
Round0(ms) ==
    LET q == ms \div 1000
        r == ms % 1000
    IN  IF r < 500 THEN q
        ELSE IF r > 500 THEN q + 1
        ELSE IF q % 2 = 0 THEN q ELSE q + 1

\* line 194
RenderUtterance(u) ==
    <<"**Speaker ", u.speaker, "** (", ToString(Round0(u.start)), "s): ">>
        \o u.text

PollResult(status, error, utterances, text) ==
    [status |-> status, error |-> error, utterances |-> utterances,
     text |-> text]

Hello == <<"hello", " ", "there">>

\* bodies the status endpoint can answer with
PollResults ==
    { PollResult(Str(<<"processing">>), Missing, Missing, Missing),
      PollResult(Missing, Str(<<"Authentication error">>), Missing, Missing),
      PollResult(Str(<<"error">>), Str(<<"bad audio">>), Missing, Missing),
      PollResult(Str(<<"error">>), Missing, Missing, Missing),
      PollResult(Str(<<"error">>), Str(<<"bad audio">>),
                 List(<<Utterance("A", 1500, <<"hi">>)>>), Missing),
      PollResult(Str(<<"completed">>), Missing,
                 List(<<Utterance("A", 1500, <<"hi">>),
                        Utterance("B", 2500, <<"yes">>)>>), Str(Hello)),
      PollResult(Str(<<"completed">>), Missing, List(<<>>), Str(Hello)),
      PollResult(Str(<<"completed">>), Missing, List(<<>>), Missing),
      PollResult(Str(<<"completed">>), Missing, List(<<>>), None),
      PollResult(Str(<<"completed">>), Missing, List(<<>>), Str(<<>>)),
      PollResult(Str(<<"completed">>), Missing, None, Str(Hello)) }

\* the default of result.get("text", "No text")
NoTextDefault == Str(<<"No text">>)

\* lines 189-196: the text of a completed job, or the exception of the loop
FormatCompleted(result) ==
    LET us == Get(result.utterances, List(<<>>))
    IN  IF us.t # "list" THEN [exc |-> "TypeError", val |-> None]
        ELSE LET lines == [k \in 1..Len(us.s) |-> RenderUtterance(us.s[k])]
             IN  [exc |-> "none",
                  val |-> IF lines # <<>>
                          THEN Str(JoinPieces(lines, <<"\n\n">>))
                          ELSE Get(result.text, NoTextDefault)]

\* line 185
BackendError(result) ==
    Str(<<"Error: ">> \o Format(Get(result.error, Str(<<"unknown">>))))

\* lines 162 and 202
KeyNotSet(name) == Str(<<"Error: ", name, " not set">>)

(***************************************************************************)
(* The synchronous provider (Gemini).                                      *)
(***************************************************************************)
SnippetLen == 200

\* the characters of s, for the strings json.dumps is asked to print
LongMessage == [k \in 1..(SnippetLen + 50) |-> "x"]

GeminiResult(candidates, dump) == [candidates |-> candidates, dump |-> dump]

\* bodies generateContent can answer with; dump is json.dumps(result),
\* character by character where it is cut
GeminiResults ==
    { GeminiResult(List(<<Str(<<"**Speaker A** (0:01): hi">>)>>), <<>>),
      GeminiResult(List(<<Str(<<"intro">> \o Separator \o <<"outro">>)>>),
                   <<>>),
      GeminiResult(List(<<Str(<<"notes", "\n\n", "---">>)>>), <<>>),
      GeminiResult(List(<<>>), <<"{", "\"candidates\": []", "}">>),
      GeminiResult(Missing,
                   <<"{", "\"", "e", "r", "r", "o", "r", "\"", ":", " ", "\"">>
                       \o LongMessage \o <<"\"", "}">>) }

\* json.dumps(result)[:200]
Snippet(dump) ==
    SubSeq(dump, 1, IF Len(dump) < SnippetLen THEN Len(dump) ELSE SnippetLen)

\* lines 219-223
GeminiText(result) ==
    IF result.candidates.t = "missing" \/ result.candidates.s = <<>>
    THEN Str(<<"Error: ">> \o Snippet(result.dump))
    ELSE result.candidates.s[1]

\* line 147
UnknownProvider_error(name) == Str(<<"Error: ", "Unknown provider: ", name>>)

UnknownProvider(name) == Str(<<"Unknown provider: ", name>>)

IsError(text) == text.t = "str" /\ text.s # <<>> /\ text.s[1] = "Error: "

(***************************************************************************)
(* State.                                                                  *)
(***************************************************************************)
VARIABLES
    pc,             \* position of the run
    exc,            \* the exception that ended the run, "none" otherwise
    cause,          \* what ended the run before the transcript, "none" otherwise
    recordings,     \* the day's directory: whether it exists, and its files
    provider,       \* --provider
    env,            \* the credentials set in the environment
    chunks,         \* main's chunk list
    i,              \* index of the loop of the current phase
    speech_chunks,  \* phase 1's result, the list phase2_segment is called on
    conversations,  \* phase2_segment's result
    outputs,        \* phase3_concat's artifacts
    filelists,      \* the file lists now in the concat directory
    merges,         \* history: the groups ffmpeg was run on, and how it ended
    listed,         \* history: the groups a file list was written for
    result,         \* the last body of the status endpoint
    all_text,       \* phase4_diarize's texts
    fate,           \* history: what the provider did with each conversation
    whisper,        \* how the detector's run on chunks[i] ended, "idle" between runs
    job,            \* history: the requests and terminal statuses of the current job
    transcript      \* the transcript file: whether written, and its text

vars == <<pc, exc, cause, recordings, provider, env, chunks, i, speech_chunks,
          conversations, outputs, filelists, merges, listed, result, all_text,
          fate, whisper, job, transcript>>

RECURSIVE SeqsUpTo(_, _)
\* all sequences over S of length at most n
SeqsUpTo(S, n) ==
    IF n = 0 THEN {<<>>}
    ELSE LET shorter == SeqsUpTo(S, n - 1)
         IN  shorter \cup {Append(q, x) : q \in shorter, x \in S}

SegChunks == {Chunk(st, "wav") : st \in Stems}

\* the files the day's directory may hold
DayFiles ==
    { Chunk(Stem("chunk_", 1, 10, 0, 0), "wav"),
      Chunk(Stem("chunk_", 1, 10, 4, 0), "wav"),
      Chunk(Stem("chunk_", 1, 10, 20, 0), "wav"),
      Chunk(Stem("chunk_", 1, 10, 40, 0), "wav"),
      Chunk(Stem("chunk_", 1, 10, 4, 0), "m4a"),
      Chunk(Stem("chunk_", 1, 24, 0, 0), "wav") }

\* output_dir / f"conversation_{i+1}.wav"
ConversationPath_fixed(k) == Chunk(<<"conversation_", 1>>, "wav")

ConversationPath(k) == Chunk(<<"conversation_", k>>, "wav")

NoResult == PollResult(Missing, Missing, Missing, Missing)
NoTranscript == [written |-> FALSE, text |-> <<>>]

Blank ==
    /\ exc = "none"
    /\ cause = "none"
    /\ i = 1
    /\ conversations = <<>>
    /\ outputs = <<>>
    /\ filelists = {}
    /\ merges = <<>>
    /\ listed = {}
    /\ result = NoResult
    /\ all_text = <<>>
    /\ fate = <<>>
    /\ whisper = "idle"
    /\ job = {}
    /\ transcript = NoTranscript

\* an uncaught exception leaves main
Raise(e, why) ==
    /\ pc' = "raised"
    /\ exc' = e
    /\ cause' = why

\* sys.exit(status)
Exit(status, why) ==
    /\ pc' = IF status = 0 THEN "exit0" ELSE "exit1"
    /\ cause' = why
    /\ exc' = exc

(***************************************************************************)
(* main, lines 234-250.                                                    *)
(***************************************************************************)
Start ==
    /\ pc = "start"
    /\ IF ~recordings.exists
       THEN Exit(1, "no_dir") /\ chunks' = chunks
       ELSE /\ chunks' = Discover(recordings.files)
            /\ IF chunks' = <<>>
               THEN Exit(1, "no_chunks")
               ELSE pc' = "phase1" /\ UNCHANGED <<exc, cause>>
    /\ i' = 1
    /\ UNCHANGED <<job, whisper, recordings, provider, env, speech_chunks, conversations,
                   outputs, filelists, merges, listed, result, all_text, fate,
                   transcript>>

(***************************************************************************)
(* phase1_detect_speech: one iteration of the loop, lines 43-63, in two    *)
(* steps: the detector runs, then its outcome is handled.                  *)
(***************************************************************************)
\* how a run of the detector on one chunk can end
WhisperOutcomes ==
    {"speech", "silent", "no_output", "timeout", "absent", "unreadable"}

\* whether the chunk is appended to speech_chunks
Keep(outcome) == outcome \in {"speech", "timeout", "absent"}

\* lines 46-50: subprocess.run of whisper on chunks[i]
RunWhisper ==
    /\ pc = "phase1"
    /\ i <= Len(chunks)
    /\ whisper' \in WhisperOutcomes
    /\ pc' = "detected"
    /\ UNCHANGED <<exc, cause, i, speech_chunks, job, recordings, provider,
                   env, chunks, conversations, outputs, filelists, merges,
                   listed, result, all_text, fate, transcript>>

\* lines 51-63: the output file is read, or the exception is handled
DetectSpeech ==
    /\ pc = "detected"
    /\ IF whisper = "unreadable"
       THEN \* json.loads raises JSONDecodeError, which is not caught
            /\ Raise("JSONDecodeError", "detector")
            /\ UNCHANGED <<speech_chunks, i, whisper>>
       ELSE /\ speech_chunks' = IF Keep(whisper)
                                THEN Append(speech_chunks, chunks[i])
                                ELSE speech_chunks
            /\ i' = i + 1
            /\ pc' = "phase1"
            /\ whisper' = "idle"
            /\ UNCHANGED <<exc, cause>>
    /\ UNCHANGED <<job, recordings, provider, env, chunks, conversations,
                   outputs, filelists, merges, listed, result, all_text, fate,
                   transcript>>

NoSpeech_never(kept) == FALSE
\* if not speech_chunks
NoSpeech(kept) == kept = <<>>

\* lines 65-66 and 254-256
Phase1Return ==
    /\ pc = "phase1"
    /\ i > Len(chunks)
    /\ IF NoSpeech(speech_chunks)
       THEN Exit(0, "no_speech")
       ELSE pc' = "phase2" /\ UNCHANGED <<exc, cause>>
    /\ UNCHANGED <<job, whisper, recordings, provider, env, chunks, i, speech_chunks,
                   conversations, outputs, filelists, merges, listed, result,
                   all_text, fate, transcript>>

(***************************************************************************)
(* phase2_segment, lines 68-98 (the call of line 259).                     *)
(***************************************************************************)
Phase2 ==
    /\ pc = "phase2"
    /\ LET r == phase2_segment(speech_chunks)
       IN  IF r.exc = "none"
           THEN /\ conversations' = r.val
                /\ pc' = "phase3"
                /\ UNCHANGED <<exc, cause>>
           ELSE /\ conversations' = conversations
                /\ Raise(r.exc, "timestamp")
    /\ i' = 1
    /\ UNCHANGED <<job, whisper, recordings, provider, env, chunks, speech_chunks, outputs,
                   filelists, merges, listed, result, all_text, fate,
                   transcript>>

(***************************************************************************)
(* phase3_concat: one iteration of the loop, lines 107-126.                *)
(***************************************************************************)
\* how a run of ffmpeg can end: output written, no output, no such program
FfmpegOutcomes == {"merged", "failed", "absent"}

ShortCircuit_never(conv) == FALSE
\* if len(conv) == 1
ShortCircuit(conv) == Len(conv) = 1

Concat ==
    /\ pc = "phase3"
    /\ i <= Len(conversations)
    /\ IF ShortCircuit(conversations[i])
       THEN /\ outputs' = Append(outputs, conversations[i][1])
            /\ i' = i + 1
            /\ UNCHANGED <<pc, exc, cause, filelists, merges, listed>>
       ELSE /\ listed' = listed \cup {i}
            /\ \E outcome \in FfmpegOutcomes :
                  /\ merges' = Append(merges, [group |-> i, ended |-> outcome])
                  /\ IF outcome = "absent"
                     THEN \* subprocess.run raises FileNotFoundError
                          /\ Raise("FileNotFoundError", "merge")
                          /\ filelists' = filelists \cup {i}
                          /\ UNCHANGED <<outputs, i>>
                     ELSE /\ filelists' = filelists \ {i}
                          /\ outputs' = Append(outputs, ConversationPath(i))
                          /\ i' = i + 1
                          /\ UNCHANGED <<pc, exc, cause>>
    /\ UNCHANGED <<job, whisper, recordings, provider, env, chunks, speech_chunks,
                   conversations, result, all_text, fate, transcript>>

\* line 128 and line 263
Phase3Return ==
    /\ pc = "phase3"
    /\ i > Len(conversations)
    /\ pc' = "phase4"
    /\ i' = 1
    /\ UNCHANGED <<exc, cause, whisper, job, recordings, provider, env,
                   chunks, speech_chunks, conversations, outputs, filelists,
                   merges, listed, result, all_text, fate, transcript>>

(***************************************************************************)
(* phase4_diarize, lines 130-154, and the two providers.                   *)
(***************************************************************************)
\* open(audio_path, "rb") succeeds: a chunk is there, a merged conversation
\* only when ffmpeg wrote it
CanOpen(audio) ==
    \/ audio.stem[1] # "conversation_"
    \/ \E k \in 1..Len(merges) :
          merges[k].group = audio.stem[2] /\ merges[k].ended = "merged"

\* all_text.append(text), and on to the next audio file
Collect(text, what) ==
    /\ all_text' = Append(all_text, text)
    /\ fate' = Append(fate, what)
    /\ i' = i + 1
    /\ pc' = "phase4"
    /\ UNCHANGED <<exc, cause>>

\* an exception of a provider call leaves phase4_diarize and main
Fail(e, what, why) ==
    /\ Raise(e, why)
    /\ fate' = Append(fate, what)
    /\ UNCHANGED <<all_text, i>>

HasKey_any(name) == env # {}
\* os.environ.get(name) is set and not empty
HasKey(name) == name \in env

\* lines 139-149, up to the credential check of the provider called
Dispatch ==
    /\ pc = "phase4"
    /\ i <= Len(outputs)
    /\ job' = {}
    /\ IF provider = "assemblyai"
       THEN IF ~HasKey("ASSEMBLYAI_API_KEY")
            THEN Collect(KeyNotSet("ASSEMBLYAI_API_KEY"), "credential")
            ELSE /\ pc' = "upload"
                 /\ UNCHANGED <<exc, cause, all_text, fate, i>>
       ELSE IF provider = "gemini"
       THEN IF ~HasKey("GEMINI_API_KEY")
            THEN Collect(KeyNotSet("GEMINI_API_KEY"), "credential")
            ELSE /\ pc' = "gemini"
                 /\ UNCHANGED <<exc, cause, all_text, fate, i>>
       ELSE Collect(UnknownProvider(provider), "unknown_provider")
    /\ UNCHANGED <<whisper, recordings, provider, env, chunks, speech_chunks,
                   conversations, outputs, filelists, merges, listed, result,
                   transcript>>

\* how a request can end: a body with the field read from it, a body
\* without it, or an exception of the transport
RequestOutcomes == {"ok", "no_field", "transport"}

\* lines 167-170 (next = "submit") and 173-176 (next = "poll_get")
Request(at, next) ==
    /\ pc = at
    /\ IF at = "upload" /\ ~CanOpen(outputs[i])
       THEN Fail("FileNotFoundError", "artifact", "merge") /\ job' = job
       ELSE \E outcome \in RequestOutcomes :
               /\ job' = job \cup {at}
               /\ IF outcome = "transport"
                  THEN Fail("ConnectionError", "transport", "provider")
                  ELSE IF outcome = "no_field"
                  THEN Fail("KeyError", "fields", "provider")
                  ELSE /\ pc' = next
                       /\ UNCHANGED <<exc, cause, all_text, fate, i>>
    /\ UNCHANGED <<whisper, recordings, provider, env, chunks, speech_chunks,
                   conversations, outputs, filelists, merges, listed, result,
                   transcript>>

Upload_to_poll == Request("upload", "poll_get")

Upload == Request("upload", "submit")

Submit == Request("submit", "poll_get")

\* lines 180-181
PollGet ==
    /\ pc = "poll_get"
    /\ job' = job \cup {"poll"}
    /\ \/ /\ Fail("ConnectionError", "transport", "provider")
          /\ UNCHANGED result
       \/ /\ result' \in PollResults
          /\ pc' = "poll_check"
          /\ UNCHANGED <<exc, cause, all_text, fate, i>>
    /\ UNCHANGED <<whisper, recordings, provider, env, chunks, speech_chunks,
                   conversations, outputs, filelists, merges, listed,
                   transcript>>

\* lines 182-186, and lines 189-196 when the loop is left by break
PollCheck ==
    /\ pc = "poll_check"
    /\ job' = IF result.status \in {Str(<<"completed">>), Str(<<"error">>)}
              THEN job \cup {result.status.s[1]}
              ELSE job
    /\ IF result.status.t = "missing"
       THEN Fail("KeyError", "fields", "provider")
       ELSE IF result.status = Str(<<"completed">>)
       THEN LET text == FormatCompleted(result)
            IN  IF text.exc # "none"
                THEN Fail(text.exc, "fields", "provider")
                ELSE Collect(text.val, "completed")
       ELSE IF result.status = Str(<<"error">>)
       THEN Collect(BackendError(result), "backend")
       ELSE \* time.sleep(3)
            /\ pc' = "poll_get"
            /\ UNCHANGED <<exc, cause, all_text, fate, i>>
    /\ UNCHANGED <<whisper, recordings, provider, env, chunks, speech_chunks,
                   conversations, outputs, filelists, merges, listed, result,
                   transcript>>

\* lines 204-223
Gemini ==
    /\ pc = "gemini"
    /\ job' = IF CanOpen(outputs[i]) THEN job \cup {"generate"} ELSE job
    /\ IF ~CanOpen(outputs[i])
       THEN Fail("FileNotFoundError", "artifact", "merge")
       ELSE \/ Fail("ConnectionError", "transport", "provider")
            \/ \E body \in GeminiResults :
                  Collect(GeminiText(body),
                          IF IsError(GeminiText(body)) THEN "fields"
                          ELSE "completed")
    /\ UNCHANGED <<whisper, recordings, provider, env, chunks, speech_chunks,
                   conversations, outputs, filelists, merges, listed, result,
                   transcript>>

AllTranscribed_first(k, files) == k > 1
\* the loop over audio_files is exhausted before the join
AllTranscribed(k, files) == k > Len(files)

\* lines 151-154
WriteTranscript ==
    /\ pc = "phase4"
    /\ AllTranscribed(i, outputs)
    /\ LET full == Join(all_text, Separator)
       IN  IF full.exc # "none"
           THEN Raise(full.exc, "provider") /\ UNCHANGED transcript
           ELSE \/ /\ transcript' = [written |-> TRUE, text |-> full.val]
                   /\ pc' = "done"
                   /\ UNCHANGED <<exc, cause>>
                \/ /\ Raise("OSError", "write")
                   /\ UNCHANGED transcript
    /\ UNCHANGED <<job, whisper, recordings, provider, env, chunks, i, speech_chunks,
                   conversations, outputs, filelists, merges, listed, result,
                   all_text, fate>>

(***************************************************************************)
(* A run of main.                                                          *)
(***************************************************************************)
Credentials == {"ASSEMBLYAI_API_KEY", "GEMINI_API_KEY"}

Init ==
    /\ pc = "start"
    /\ recordings \in
          {[exists |-> FALSE, files |-> {}]} \cup
          {[exists |-> TRUE, files |-> fs] :
              fs \in {s \in SUBSET DayFiles : Cardinality(s) <= MaxChunks}}
    /\ provider \in {"assemblyai", "gemini"}
    /\ env \in SUBSET Credentials
    /\ chunks = <<>>
    /\ speech_chunks = <<>>
    /\ Blank

Next ==
    \/ Start
    \/ RunWhisper
    \/ DetectSpeech
    \/ Phase1Return
    \/ Phase2
    \/ Concat
    \/ Phase3Return
    \/ Dispatch
    \/ Upload
    \/ Submit
    \/ PollGet
    \/ PollCheck
    \/ Gemini
    \/ WriteTranscript

Spec == Init /\ [][Next]_vars

(***************************************************************************)
(* phase2_segment on any list of chunks.                                   *)
(***************************************************************************)
SegInit ==
    /\ pc = "phase2"
    /\ recordings = [exists |-> TRUE, files |-> {}]
    /\ provider = "assemblyai"
    /\ env = {}
    /\ chunks = <<>>
    /\ speech_chunks \in SeqsUpTo(SegChunks, MaxLen)
    /\ Blank

SegNext == Phase2

SegSpec == SegInit /\ [][SegNext]_vars

\* a run of main that takes every step it can
FairSpec == Spec /\ WF_vars(Next)

(***************************************************************************)
(* phase4_diarize on any list of audio files, with any provider name.      *)
(***************************************************************************)
\* audio files a caller may pass: two chunks and two merged conversations
Artifacts ==
    { Chunk(Stem("chunk_", 1, 10, 0, 0), "wav"),
      Chunk(Stem("chunk_", 1, 10, 40, 0), "m4a"),
      ConversationPath(1), ConversationPath(2) }

\* ffmpeg wrote conversation_1.wav and left no conversation_2.wav
ArtifactsOnDisk ==
    << [group |-> 1, ended |-> "merged"], [group |-> 2, ended |-> "failed"] >>

ProviderNames == {"assemblyai", "gemini", "whisperx"}

DiarizeInit ==
    /\ pc = "phase4"
    /\ recordings = [exists |-> TRUE, files |-> {}]
    /\ provider \in ProviderNames
    /\ env \in SUBSET Credentials
    /\ chunks = <<>>
    /\ speech_chunks = <<>>
    /\ exc = "none"
    /\ cause = "none"
    /\ i = 1
    /\ conversations = <<>>
    /\ outputs \in {q \in SeqsUpTo(Artifacts, MaxAudio) :
                        \A j, k \in 1..Len(q) : q[j] = q[k] => j = k}
    /\ filelists = {}
    /\ merges = ArtifactsOnDisk
    /\ listed = {}
    /\ result = NoResult
    /\ all_text = <<>>
    /\ fate = <<>>
    /\ whisper = "idle"
    /\ job = {}
    /\ transcript = NoTranscript

DiarizeNext ==
    \/ Dispatch
    \/ Upload
    \/ Submit
    \/ PollGet
    \/ PollCheck
    \/ Gemini
    \/ WriteTranscript

DiarizeSpec == DiarizeInit /\ [][DiarizeNext]_vars

(***************************************************************************)
(* Properties.                                                             *)
(***************************************************************************)
RECURSIVE Flatten(_)
\* the groups' chunks, concatenated in order
Flatten(groups) ==
    IF groups = <<>> THEN <<>> ELSE groups[1] \o Flatten(Tail(groups))

\* the positions of the input at which a group of groups begins
Starts(groups) ==
    {1 + Len(Flatten(SubSeq(groups, 1, j))) : j \in 0..(Len(groups) - 1)}

\* sep occurs in text at position k
OccursAt(text, sep, k) ==
    /\ k + Len(sep) - 1 <= Len(text)
    /\ SubSeq(text, k, k + Len(sep) - 1) = sep

\* the positions of text at which sep occurs, overlapping ones included
Occurrences(text, sep) == {k \in 1..Len(text) : OccursAt(text, sep, k)}

RECURSIVE Split(_, _)
\* text.split(sep): the blocks between the occurrences of sep, found from
\* the left
Split(text, sep) ==
    IF Occurrences(text, sep) = {} THEN <<text>>
    ELSE LET at == CHOOSE k \in Occurrences(text, sep) :
                       \A j \in Occurrences(text, sep) : k <= j
         IN  <<SubSeq(text, 1, at - 1)>>
                 \o Split(SubSeq(text, at + Len(sep), Len(text)), sep)

Parses(c) == ParseTime(c.stem).exc = "none"

\* the seconds from chunk k-1 to chunk k of cs, both timestamps parsing
Seconds(cs, k) == ParseTime(cs[k].stem).val - ParseTime(cs[k - 1].stem).val

\* the gap of chunk k of cs: the seconds to its predecessor, 300 when either
\* timestamp does not parse
GapAt(cs, k) ==
    IF Parses(cs[k - 1]) /\ Parses(cs[k]) THEN Seconds(cs, k) ELSE 300

\* cs with the stem of chunk k replaced
WithStem(cs, k, stem) == [cs EXCEPT ![k] = Chunk(stem, cs[k].ext)]

Segmented == pc = "phase3" /\ speech_chunks # <<>>

(* C1: for a non-empty input, phase2_segment returns non-empty groups whose
   concatenation in order is the input: nothing omitted, duplicated or
   reordered. *)
C1_Partition ==
    Segmented =>
        /\ Flatten(conversations) = speech_chunks
        /\ \A g \in 1..Len(conversations) : conversations[g] # <<>>

C1_Witness ==
    /\ Segmented
    /\ Len(conversations) = 2
    /\ Len(speech_chunks) = 3
    /\ \E k \in 1..3 : ~Parses(speech_chunks[k])

(* C5: phase2_segment never raises on unparseable timestamps; a gap with an
   unparseable end never starts a group; and making one parseable timestamp
   unparseable never gives more groups. *)
C5_MalformedMerges ==
    /\ pc # "raised"
    /\ Segmented =>
          /\ \A k \in 2..Len(speech_chunks) :
                ~(Parses(speech_chunks[k - 1]) /\ Parses(speech_chunks[k]))
                    => k \notin Starts(conversations)
          /\ \A k \in 1..Len(speech_chunks) : \A bad \in MalformedStems :
                Parses(speech_chunks[k]) =>
                    LET r == phase2_segment(WithStem(speech_chunks, k, bad))
                    IN  r.exc = "none" /\ Len(r.val) <= Len(conversations)

C5_Witness ==
    /\ Segmented
    /\ Len(conversations) = 3
    /\ \E k \in 1..Len(speech_chunks) : \E bad \in MalformedStems :
          /\ Parses(speech_chunks[k])
          /\ Len(phase2_segment(WithStem(speech_chunks, k, bad)).val) = 1

(* C6: chunk k (k >= 2) starts a new group exactly when its gap to chunk
   k-1 of the input exceeds 600 seconds, whatever the span of the current
   group; 10:00:00, 10:04:00, 10:20:00 give [10:00, 10:04] and [10:20]. *)
C6_SplitOnPredecessorGap ==
    Segmented =>
        \A k \in 2..Len(speech_chunks) :
            k \in Starts(conversations) <=> GapAt(speech_chunks, k) > 600

\* 10:00:00, 10:10:00, 10:20:00: each within 600 s of its predecessor, the
\* last 1200 s after the first, one group
C6_Witness ==
    /\ Segmented
    /\ Len(speech_chunks) = 3
    /\ \A k \in 1..3 : Parses(speech_chunks[k])
    /\ Seconds(speech_chunks, 2) = 600
    /\ Seconds(speech_chunks, 3) = 600
    /\ Len(conversations) = 1

(* C7: when every consecutive pair of the N input chunks has a gap above
   the threshold, the result is N groups of one chunk each. *)
C7_AllGapsAbove ==
    (Segmented /\ \A k \in 2..Len(speech_chunks) :
                      GapAt(speech_chunks, k) > 600)
        => /\ Len(conversations) = Len(speech_chunks)
           /\ \A g \in 1..Len(conversations) : Len(conversations[g]) = 1

C7_Witness ==
    /\ Segmented
    /\ Len(speech_chunks) = 3
    /\ \A k \in 2..3 : GapAt(speech_chunks, k) > 600
    /\ Len(conversations) = 3

(* C8: when all consecutive gaps of a non-empty input are below the
   threshold, the result is one group holding all chunks; a single chunk
   gives one group of size 1. *)
C8_AllGapsBelow ==
    (Segmented /\ \A k \in 2..Len(speech_chunks) :
                      GapAt(speech_chunks, k) < 600)
        => conversations = <<speech_chunks>>

C8_Witness ==
    /\ Segmented
    /\ Len(speech_chunks) = 3
    /\ \A k \in 2..3 :
          /\ Parses(speech_chunks[k - 1]) /\ Parses(speech_chunks[k])
          /\ Seconds(speech_chunks, k) \in 1..599
    /\ conversations = <<speech_chunks>>

Ended == pc \in {"done", "raised", "exit0", "exit1"}

\* the blocks of the transcript file
Blocks == Split(transcript.text, Separator)

ProviderFailed(what) ==
    what \in {"credential", "transport", "backend", "fields"}

(* C2: whatever conversations the provider fails on (missing credential,
   transport failure, backend-reported error, a response lacking the expected
   fields), phase4_diarize goes on to the later artifacts and writes the
   transcript: N blocks in input order, "Error: <message>" for each failed
   conversation, the provider's output for every other. *)
C2_FailureIsolated ==
    /\ pc = "raised" => cause # "provider"
    /\ pc = "done" =>
          /\ Len(Blocks) = Len(outputs)
          /\ \A k \in 1..Len(outputs) :
                IF ProviderFailed(fate[k])
                THEN Blocks[k] # <<>> /\ Blocks[k][1] = "Error: "
                ELSE Blocks[k] = all_text[k].s

(* C3: a run ends before the transcript is produced only when the transcript
   file cannot be written or no speech-bearing chunk is left (none found, or
   none kept by phase 1); no failure of the speech detector, of the merge
   tool or of the provider ends it. *)
C3_OnlyTwoEarlyExits ==
    (Ended /\ pc # "done") =>
        cause \in {"write", "no_speech", "no_chunks", "no_dir"}

(* C4: the poll loop terminates: a job that has been submitted is not polled
   forever, whatever statuses the backend answers with. *)
C4_PollLoopTerminates ==
    (pc = "poll_get") ~> (pc \notin {"poll_get", "poll_check"})

(* C9: a conversation group of exactly one chunk never invokes the merge
   tool and gets no file list; its artifact is the chunk's own path. *)
C9_SingletonNotMerged ==
    \A g \in 1..Len(conversations) :
        Len(conversations[g]) = 1 =>
            /\ g \notin listed
            /\ \A k \in 1..Len(merges) : merges[k].group # g
            /\ g <= Len(outputs) => outputs[g] = conversations[g][1]

C9_Witness ==
    /\ pc = "phase4"
    /\ \E g \in 1..Len(outputs) :
          Len(conversations[g]) = 1 /\ outputs[g] = conversations[g][1]
    /\ \E g \in 1..Len(outputs) :
          /\ Len(conversations[g]) > 1
          /\ g \in listed
          /\ outputs[g] = ConversationPath(g)

\* the conversation just collected was a completed job of the asynchronous
\* provider whose body holds no utterance and no text
CompletedWithNothing ==
    /\ pc = "phase4"
    /\ provider = "assemblyai"
    /\ fate # <<>>
    /\ fate[Len(fate)] = "completed"
    /\ Get(result.utterances, List(<<>>)) = List(<<>>)
    /\ result.text \in {Missing, None, Str(<<>>)}

(* C10: a completed job with zero utterances and no text (the text field
   missing, null or empty) is rendered as the literal "No text". *)
C10_NoTextPlaceholder ==
    CompletedWithNothing => all_text[Len(all_text)] = Str(<<"No text">>)

\* the separator the transcript's readers split at
SeparatorLine == <<"\n\n", "---", "\n\n">>

\* the texts collected for the audio files, as piece sequences
Texts == [k \in 1..Len(all_text) |-> all_text[k].s]

\* the blocks a reader gets by splitting the transcript file
TranscriptBlocks == Split(transcript.text, SeparatorLine)

Written == pc = "done" /\ outputs # <<>>

(* C11: the transcript written for N >= 1 artifacts is the N texts joined by
   "\n\n---\n\n" in the artifacts' order; splitting it at the separator gives
   back exactly the N texts whenever the separator occurs in the transcript
   only at the N-1 joins. *)
C11_JoinedInOrder ==
    Written =>
        /\ transcript.written
        /\ Len(all_text) = Len(outputs)
        /\ transcript.text = JoinPieces(Texts, SeparatorLine)
        /\ Cardinality(Occurrences(transcript.text, SeparatorLine))
               = Len(outputs) - 1
             => TranscriptBlocks = Texts

C11_Witness ==
    /\ Written
    /\ Len(outputs) = 3
    /\ provider = "gemini"
    /\ \A k \in 1..3 : fate[k] = "completed"
    /\ all_text[1] # all_text[3]
    /\ Cardinality(Occurrences(transcript.text, SeparatorLine)) = 2
    /\ TranscriptBlocks = Texts

(* C11 as stated: splitting the transcript at the separator gives back
   exactly N blocks, block i the text of artifact i, whatever text the
   provider returned. *)
C11_SplitGivesTexts ==
    Written =>
        /\ Len(TranscriptBlocks) = Len(outputs)
        /\ \A k \in 1..Len(outputs) : TranscriptBlocks[k] = all_text[k].s


\* the credential the selected provider reads
OwnKey == IF provider = "gemini" THEN "GEMINI_API_KEY" ELSE "ASSEMBLYAI_API_KEY"

\* a recognized provider is selected and its credential is not in the
\* environment
KeyAbsent == provider \in {"assemblyai", "gemini"} /\ OwnKey \notin env

(* C12: when the credential of the selected provider is absent, no upload or
   request is sent for any conversation, every conversation's slot holds the
   inline text "Error: <KEY> not set", and the run ends with the transcript
   written (only a failure to write the file can stop it); this holds with
   and without the other provider's credential. *)
C12_NoKeyNoRequest ==
    KeyAbsent =>
        /\ job = {}
        /\ pc \in {"phase4", "done", "raised"}
        /\ Len(all_text) = i - 1
        /\ \A k \in 1..Len(all_text) :
              all_text[k] = KeyNotSet(OwnKey) /\ IsError(all_text[k])
        /\ pc = "raised" => cause = "write"
        /\ pc = "done" =>
              /\ transcript.written
              /\ Len(all_text) = Len(outputs)
              /\ transcript.text = JoinPieces(Texts, SeparatorLine)

C12_Witness ==
    /\ pc = "done"
    /\ provider = "assemblyai"
    /\ env = {"GEMINI_API_KEY"}
    /\ Len(outputs) = 3
    /\ transcript.written
    /\ \A k \in 1..3 : fate[k] = "credential"


\* the provider name is neither recognized backend
Unrecognized == provider \notin {"assemblyai", "gemini"}

(* C13: called with a provider name that is neither recognized backend,
   phase4_diarize calls no provider, does not abort (only a failure to write
   the file can stop it), and writes a transcript in which each of the N
   slots holds the inline text "Unknown provider: <name>", which is not of
   the "Error: <message>" form. *)
C13_UnknownProviderInline ==
    Unrecognized =>
        /\ job = {}
        /\ pc \in {"phase4", "done", "raised"}
        /\ Len(all_text) = i - 1
        /\ \A k \in 1..Len(all_text) :
              /\ all_text[k] = Str(<<"Unknown provider: ", provider>>)
              /\ ~IsError(all_text[k])
        /\ pc = "raised" => cause = "write"
        /\ pc = "done" =>
              /\ transcript.written
              /\ Len(all_text) = Len(outputs)
              /\ transcript.text = JoinPieces(Texts, SeparatorLine)

C13_Witness ==
    /\ pc = "done"
    /\ provider = "whisperx"
    /\ Len(outputs) = 3
    /\ transcript.written
    /\ \A k \in 1..3 : fate[k] = "unknown_provider"

(* C13 as stated: with an unrecognized provider name every slot holds an
   inline error of the "Error: <message>" form. *)
C13_UnknownProviderIsError ==
    Unrecognized => \A k \in 1..Len(all_text) : IsError(all_text[k])


\* the detector was absent, timed out, wrote no output file, or wrote one
\* that cannot be read
DetectorFailed == whisper \in {"absent", "timeout", "no_output", "unreadable"}

\* the chunk under test is appended and the loop goes on to the next chunk
KeptAndOn ==
    /\ speech_chunks' = Append(speech_chunks, chunks[i])
    /\ i' = i + 1
    /\ pc' = "phase1"

(* C14: in phase1_detect_speech every chunk on which the detector is absent,
   times out or fails (no output file, or unreadable output) is kept as
   speech-bearing and the loop goes on to the next chunk; a chunk is dropped
   only when the detector ran successfully and reported no speech. *)
C14_DetectorFailsOpen ==
    [][pc = "detected" =>
          /\ DetectorFailed => KeptAndOn
          /\ speech_chunks' = speech_chunks => whisper = "silent"]_vars


\* no phase after phase 1 has left any trace
NothingLater ==
    /\ conversations = <<>>
    /\ outputs = <<>>
    /\ merges = <<>>
    /\ listed = {}
    /\ filelists = {}
    /\ all_text = <<>>
    /\ fate = <<>>
    /\ job = {}
    /\ ~transcript.written

\* the run is past the return of phase 1
PastPhase1 ==
    \/ pc \in {"phase2", "phase3", "phase4", "upload", "submit", "poll_get",
               "poll_check", "gemini", "done"}
    \/ pc = "raised" /\ cause # "detector"

(* C15: when phase 1 leaves no speech-bearing chunk the run exits with
   status 0 and no later phase runs: no segmentation, no merge, no provider
   request, no transcript file; and no run gets past phase 1 with an empty
   list of speech-bearing chunks. *)
C15_NoSpeechCleanExit ==
    /\ pc = "exit0" =>
          /\ cause = "no_speech"
          /\ exc = "none"
          /\ speech_chunks = <<>>
          /\ i > Len(chunks)
          /\ NothingLater
    /\ PastPhase1 => speech_chunks # <<>>

C15_Witness ==
    /\ pc = "exit0"
    /\ Len(chunks) >= 2
    /\ speech_chunks = <<>>
    /\ NothingLater


\* a provider job is in progress for conversation i
InJob == pc \in {"upload", "submit", "poll_get", "poll_check", "gemini"}

\* phase 4 has been entered
InPhase4 == InJob \/ pc \in {"phase4", "done"}

\* phases 1 to 3 have each run to their return before phase 4 starts, and
\* no phase leaves a trace before the one ahead of it has returned
PhaseOrder ==
    /\ pc \in {"start", "phase1", "detected", "exit0", "exit1"} =>
          conversations = <<>>
    /\ pc \in {"start", "phase1", "detected", "phase2", "exit0", "exit1"} =>
          outputs = <<>> /\ merges = <<>> /\ listed = {}
    /\ pc \in {"start", "phase1", "detected", "phase2", "phase3", "exit0",
               "exit1"} =>
          all_text = <<>> /\ fate = <<>> /\ job = {}
    /\ InPhase4 =>
          /\ speech_chunks # <<>>
          /\ conversations = phase2_segment(speech_chunks).val
          /\ Len(outputs) = Len(conversations)
          /\ filelists = {}

\* conversation k's job is terminal (its slot is decided) before
\* conversation k + 1 is dispatched; only conversation i can be in progress
OneAtATime ==
    /\ InPhase4 => Len(all_text) = i - 1 /\ Len(fate) = i - 1
    /\ InJob => i <= Len(outputs)
    /\ (job \cap {"upload", "submit", "poll"} # {}
          /\ job \cap {"completed", "error"} = {}) =>
          InJob \/ pc = "raised"
    /\ Len(fate) <= Len(outputs)

\* the transcript is written by the last step only, all slots decided
WrittenLast ==
    transcript.written =>
        /\ pc = "done"
        /\ Len(fate) = Len(outputs)
        /\ Len(all_text) = Len(outputs)
        /\ \A k \in 1..Len(fate) : fate[k] # "transport"

(* C16: the phases run in strict order and the conversations are dispatched
   one at a time: conversation k + 1 is dispatched only after the job of
   conversation k is terminal, at most one job is in progress at any moment,
   and the transcript is written once, after every conversation's job is
   terminal, and never written again. *)
C16_StrictOrder ==
    /\ [](PhaseOrder /\ OneAtATime /\ WrittenLast)
    /\ [][transcript.written => transcript' = transcript]_vars

C16_Witness ==
    /\ pc = "done"
    /\ transcript.written
    /\ provider = "assemblyai"
    /\ Len(outputs) = 2
    /\ fate = <<"completed", "backend">>


\* the gaps, in seconds, between consecutive chunks of one group whose
\* timestamps both parse
GroupGaps(group) ==
    {Seconds(group, k) : k \in {j \in 2..Len(group) :
                                    Parses(group[j - 1]) /\ Parses(group[j])}}

(* C17: in every group returned by phase2_segment, each pair of consecutive
   chunks whose timestamps both parse has a gap of at most 600 seconds; a
   gap of exactly 600 seconds keeps the two chunks in one group. *)
C17_GapsAtMostThreshold ==
    Segmented =>
        \A g \in 1..Len(conversations) :
            \A gap \in GroupGaps(conversations[g]) : gap <= 600

C17_Witness ==
    /\ Segmented
    /\ Len(speech_chunks) = 3
    /\ \E g \in 1..Len(conversations) :
          /\ 600 \in GroupGaps(conversations[g])
          /\ 360 \in GroupGaps(conversations[g])

(* C17 as stated: each such pair has a gap strictly below 600 seconds. *)
C17_GapsBelowThreshold ==
    Segmented =>
        \A g \in 1..Len(conversations) :
            \A gap \in GroupGaps(conversations[g]) : gap < 600


\* the statuses that end the poll loop
Terminal == {"completed", "error"}

\* an utterance line is rendered in the text
HasUtterance(text) ==
    text.t = "str" /\ \E k \in 1..Len(text.s) : text.s[k] = "**Speaker "

\* the text that reports the backend's error message of a body
ReportedError(body) ==
    IF body.error.t = "str" THEN <<"Error: ">> \o body.error.s
    ELSE IF body.error.t = "none" THEN <<"Error: ", "None">>
    ELSE <<"Error: ", "unknown">>

\* the slot of the conversation whose job has just ended
LastSlot == all_text[Len(all_text)]

(* C18: every job of the asynchronous provider goes upload, submit, polls,
   then completed or failed: the upload precedes the submit, the submit
   precedes the first poll, no poll is made once a terminal status has been
   seen, utterances are rendered only after status "completed", and on
   status "error" the slot is the inline text "Error: <message reported by
   the backend>" with no utterance rendered. *)
C18_JobLifecycle ==
    provider = "assemblyai" =>
        /\ "submit" \in job \/ pc = "submit" => "upload" \in job
        /\ "poll" \in job \/ pc = "poll_get" => "submit" \in job
        /\ pc = "poll_check" => "poll" \in job
        /\ job \cap Terminal # {} =>
              /\ pc \in {"phase4", "done", "raised"}
              /\ "poll" \in job
              /\ result.status.s = <<CHOOSE t \in job : t \in Terminal>>
        /\ \A k \in 1..Len(all_text) :
              /\ HasUtterance(all_text[k]) => fate[k] = "completed"
              /\ fate[k] = "backend" =>
                    IsError(all_text[k]) /\ ~HasUtterance(all_text[k])
        /\ ("completed" \in job /\ pc # "raised") =>
              fate[Len(fate)] = "completed"
        /\ "error" \in job =>
              /\ fate[Len(fate)] = "backend"
              /\ LastSlot = Str(ReportedError(result))

C18_Witness ==
    /\ provider = "assemblyai"
    /\ pc = "phase4"
    /\ job = {"upload", "submit", "poll", "error"}
    /\ fate = <<"completed", "backend">>
    /\ HasUtterance(all_text[1])
    /\ result.utterances # Missing
    /\ LastSlot = Str(<<"Error: ", "bad audio">>)


\* the chunk sequence main has discovered
Discovered == pc \notin {"start", "exit1"}

(* C19: for any set of chunk files of a day, in any mix of the two
   container formats, the chunk sequence main passes through the pipeline
   holds each chunk path exactly once and is in ascending order of the
   embedded timestamps, so every gap the segmenter computes between
   consecutive chunks is non-negative. *)
C19_AscendingNoDuplicates ==
    Discovered =>
        /\ Len(chunks) = Cardinality(Glob(recordings.files, "wav"))
                           + Cardinality(Glob(recordings.files, "m4a"))
        /\ \A j, k \in 1..Len(chunks) : chunks[j] = chunks[k] => j = k
        /\ \A k \in 2..Len(chunks) :
              (Parses(chunks[k - 1]) /\ Parses(chunks[k]))
                  => Seconds(chunks, k) >= 0
        /\ \A k \in 2..Len(speech_chunks) : GapAt(speech_chunks, k) >= 0


\* the groups of more than one chunk, the ones phase3_concat merges
Merged == {g \in 1..Len(conversations) : Len(conversations[g]) # 1}

\* artifact g is the audio of group g: the chunk itself for a group of one
\* chunk, else the file named after the group's position
BelongsTo(g) ==
    IF g \in Merged
    THEN /\ outputs[g].stem = <<"conversation_", g>>
         /\ \E k \in 1..Len(merges) : merges[k].group = g
    ELSE outputs[g] = conversations[g][1]

(* C20: phase3_concat returns exactly G artifacts in group order, artifact i
   belonging to group i whether or not the merge tool succeeded, the
   artifact paths are pairwise distinct, and every temporary file list it
   created has been removed when it returns; hence the i-th block joined
   into the transcript is the text of conversation group i. *)
C20_ArtifactsAligned ==
    InPhase4 =>
        /\ Len(outputs) = Len(conversations)
        /\ \A g \in 1..Len(outputs) : BelongsTo(g)
        /\ \A g, h \in 1..Len(outputs) : outputs[g] = outputs[h] => g = h
        /\ listed = Merged
        /\ filelists = {}
        /\ InJob => Len(all_text) = i - 1 /\ i <= Len(conversations)
        /\ pc = "done" =>
              /\ Len(all_text) = Len(conversations)
              /\ transcript.text = JoinPieces(Texts, SeparatorLine)
              /\ Cardinality(Occurrences(transcript.text, SeparatorLine))
                    = Len(conversations) - 1 =>
                    \A g \in 1..Len(conversations) :
                        TranscriptBlocks[g] = all_text[g].s

C20_Witness ==
    /\ pc = "done"
    /\ Len(conversations) = 2
    /\ Merged = {1}
    /\ merges = <<[group |-> 1, ended |-> "failed"]>>
    /\ outputs = <<ConversationPath(1), conversations[2][1]>>
    /\ transcript.written


=============================================================================
